---- MODULE Spec2Model ----
(***************************************************************************)
(* Model of the gamemaster audio engine (gamemaster-client) of the         *)
(* Messagerie application: the unlock gate, the routing graph, the         *)
(* ambient / preset / speech layers, the volume controller, the progress   *)
(* reporter and the audio part of the public API.                          *)
(*                                                                         *)
(* Scheduling is the browser's: single-threaded, every handler runs to     *)
(* completion, so every handler is one action.                             *)
(*                                                                         *)
(* Volumes are in percent (100 stands for 1.0, 50 for 0.5).                *)
(* An HTMLAudioElement is a record.  A JavaScript Map is the sequence of   *)
(* its entries, in insertion order.  Elements that are no longer           *)
(* referenced by a live set and were torn down (paused, source released)   *)
(* or have ended are garbage; an unreferenced element that was NOT torn    *)
(* down is kept in orphans, because the platform keeps it alive.           *)
(*                                                                         *)
(* audioConfig.autoUnlock and audioConfig.debug are stored but never read  *)
(* after module initialisation, and registeredData / lastKnownState only   *)
(* feed the game events "register" and "state_update"; they are not part   *)
(* of the audio state, and out records the audio events only.              *)
(***************************************************************************)
EXTENDS Integers, Sequences, FiniteSets, TLC

\* ---------------------------------------------------------------- bounds
\* length of a preset clip, in position units
Duration == 2
\* object URLs that may be alive at the same time
MaxUrls == 2
\* callback functions the caller creates (one per mount of the UI)
MaxCallbacks == 2
\* messages passed to addMessageToQueue over a run
MaxEnqueued == 3

\* ------------------------------------------------------ program constants
InitMasterVolume == 100
InitIaVolume == 100
DefaultAmbientVolume == 50

\* ---------------------------------------------------------- input domains
AmbientIds == {"rain"}
AmbientFiles == {"rain.mp3"}
PresetIdxs == {0}
PresetFiles == {"a.mp3", "b.mp3"}
Volumes == {50, 80}
Payloads == {"p1", "p2"}
NoVolume == -1
SeekTimes == 0 .. (Duration - 1)
ConfigValues == {"unset", "true", "false"}

unlockEvents == {"click", "touchstart", "keydown"}

\* the event names the caller subscribes to through the API
CallerEvents == {"command", "game-message", "connect", "disconnect"}
\* the caller's callback functions, by reference
Callbacks == 1 .. MaxCallbacks
NoCallback == 0

\* ---------------------------------------------------------------- state
VARIABLES
  audioConfig,        \* [enabled]
  audioUnlocked,
  audioCtx,           \* TRUE when the AudioContext exists
  masterGain,         \* masterGain.gain.value, NoGain while masterGain is null
  masterVolume,
  iaVolume,
  ambientAudios,      \* Map soundId -> element
  presetAudios,       \* Map presetIdx -> element
  ttsAudio,           \* element or NoAudio
  progressInterval,   \* TRUE when the handle is not null
  intervals,          \* repeating timers the platform is running
  unlockListeners,    \* window events doUnlockAudio is attached to
  liveUrls,           \* object URLs created and not revoked
  orphans,            \* unreferenced elements that were not torn down
  unlockRuns,         \* completed runs of the unlock sequence
  constructed,        \* elements constructed by the last handler
  tornDown,           \* elements torn down (paused, source released) by it
  out,                \* audio events emitted by the last handler
  last,               \* the last handler and its inputs
  socketListeners,    \* event name -> caller callbacks attached, in order
  latestCallback,     \* event name -> callback of the latest registration
  invoked,            \* caller callbacks run by the last step, in order
  messageQueue,       \* messageQueueRef.current
  isProcessing,       \* isProcessingRef.current
  currentMessage,     \* the text on screen
  isTyping,
  isFadingOut,
  isVisible,
  shows,              \* the showMessage promises pending, with their timers
  enqueued,           \* every message passed to addMessageToQueue, in order
  started,            \* every message whose showMessage was started, in order
  resolved            \* every message whose promise resolved, in order

vars == <<audioConfig, audioUnlocked, audioCtx, masterGain, masterVolume,
          iaVolume, ambientAudios, presetAudios, ttsAudio, progressInterval,
          intervals, unlockListeners, liveUrls, orphans, unlockRuns,
          constructed, tornDown, out, last, socketListeners,
          latestCallback, invoked, messageQueue, isProcessing,
          currentMessage, isTyping, isFadingOut, isVisible, shows, enqueued,
          started, resolved>>

\* the state of the App component
appVars == <<messageQueue, isProcessing, currentMessage, isTyping,
             isFadingOut, isVisible, shows, enqueued, started, resolved>>

NoGain == -1

\* element.src after src = "" (the source is released)
NoSrc == <<"", "">>
AmbientUrl(file) == <<"sounds", file>>
PresetUrl(file) == <<"presets", file>>
\* URL.createObjectURL of the blob decoded from the payload
BlobUrl(audioBase64) == <<"blob", audioBase64>>

\* an HTMLAudioElement; kind and presetIdx stand for the onended closure it
\* carries; duration = 0 stands for NaN (metadata not loaded)
NoAudio == [kind |-> "none", presetIdx |-> -1, src |-> NoSrc, paused |-> TRUE,
            volume |-> 0, loop |-> FALSE, currentTime |-> 0, duration |-> 0,
            routed |-> FALSE]

\* new Audio(url): paused, at position 0, metadata not loaded yet
NewAudio(kind, presetIdx, url) ==
  [kind |-> kind, presetIdx |-> presetIdx, src |-> url, paused |-> TRUE,
   volume |-> 100, loop |-> FALSE, currentTime |-> 0, duration |-> 0,
   routed |-> FALSE]

\* mutant: the element sounds whatever the platform answers
PlayDespiteRejection(e, ok) == [e EXCEPT !.paused = FALSE]

\* element.play(): ok is the platform's answer to the play request
Play(e, ok) == IF e.paused /\ ~ok THEN e ELSE [e EXCEPT !.paused = FALSE]

\* element.pause()
Pause(e) == [e EXCEPT !.paused = TRUE]

\* mutant: the element is dropped still sounding, its source not released
TearDownSkipped(e) == e

\* element.pause(); element.src = "": the element no longer sounds, and the
\* platform will not dispatch an end-of-clip notification for it
TearDown(e) == [e EXCEPT !.paused = TRUE, !.src = NoSrc]

IsTornDown(e) == e.paused /\ e.src = NoSrc

\* routeThroughMaster(audio)
routeThroughMaster(e) == [e EXCEPT !.routed = audioCtx /\ masterGain # NoGain]

\* an element leaving every live set: kept only if it was not torn down
Released(e) == IF IsTornDown(e) THEN {} ELSE {e}

\* Map operations
EmptyMap == <<>>
Keys(m) == {m[i].k : i \in DOMAIN m}
Values(m) == {m[i].v : i \in DOMAIN m}
Has(m, k) == k \in Keys(m)
Get(m, k) == m[CHOOSE i \in DOMAIN m : m[i].k = k].v
MapSet(m, k, e) ==
  IF Has(m, k)
  THEN [i \in DOMAIN m |-> IF m[i].k = k THEN [k |-> k, v |-> e] ELSE m[i]]
  ELSE Append(m, [k |-> k, v |-> e])
MapDelete(m, k) ==
  LET Keep(en) == en.k # k IN SelectSeq(m, Keep)

\* outbound events
Ev(name, idx, ct, dur, ended) ==
  [name |-> name, presetIdx |-> idx, currentTime |-> ct, duration |-> dur,
   ended |-> ended]
RegisterAudioPlayer == Ev("register-audio-player", -1, 0, 0, FALSE)

\* the handler that ran, with its inputs
Cmd(op, soundId, presetIdx, file, volume, time, ok) ==
  [op |-> op, soundId |-> soundId, presetIdx |-> presetIdx, file |-> file,
   volume |-> volume, time |-> time, ok |-> ok]
Op(op) == Cmd(op, "", -1, "", NoVolume, -1, TRUE)

Init ==
  /\ audioConfig = [enabled |-> TRUE]
  /\ audioUnlocked = FALSE
  /\ audioCtx = FALSE
  /\ masterGain = NoGain
  /\ masterVolume = InitMasterVolume
  /\ iaVolume = InitIaVolume
  /\ ambientAudios = EmptyMap
  /\ presetAudios = EmptyMap
  /\ ttsAudio = NoAudio
  /\ progressInterval = FALSE
  /\ intervals = 0
  /\ unlockListeners = unlockEvents      \* initAudio: autoUnlock is true
  /\ liveUrls = 0
  /\ orphans = {}
  /\ unlockRuns = 0
  /\ constructed = 0
  /\ tornDown = 0
  /\ out = <<>>
  /\ last = Op("init")
  /\ socketListeners = [name \in CallerEvents |-> <<>>]
  /\ latestCallback = [name \in CallerEvents |-> NoCallback]
  /\ invoked = <<>>
  /\ messageQueue = <<>>
  /\ isProcessing = FALSE
  /\ currentMessage = <<>>
  /\ isTyping = FALSE
  /\ isFadingOut = FALSE
  /\ isVisible = FALSE
  /\ shows = <<>>
  /\ enqueued = <<>>
  /\ started = <<>>
  /\ resolved = <<>>

\* a step that dispatches no event to the caller and registers nothing
NoDispatch ==
  /\ invoked' = <<>>
  /\ UNCHANGED <<socketListeners, latestCallback>>
  /\ UNCHANGED appVars

\* ------------------------------------------------------------ helpers

\* mutant: the play handlers check only the configuration
PlayAllowedNoUnlock == audioConfig.enabled

\* the gate of the three play handlers
PlayAllowed == audioUnlocked /\ audioConfig.enabled

\* mutant: the new gain node keeps the default gain
InitialGainDefault == InitMasterVolume

\* initAudioContext: the gain the new master gain node starts with
InitialGain == masterVolume

\* initAudioContext()
initAudioContext ==
  IF audioCtx
  THEN UNCHANGED <<audioCtx, masterGain>>
  ELSE /\ audioCtx' = TRUE
       /\ masterGain' = InitialGain

\* startProgressReporting()
startProgressReporting ==
  IF progressInterval
  THEN UNCHANGED <<progressInterval, intervals>>
  ELSE /\ progressInterval' = TRUE
       /\ intervals' = intervals + 1

\* mutant: the handle is cleared but the interval keeps running
stopProgressReportingHandleOnly ==
  /\ progressInterval' = FALSE
  /\ intervals' = intervals

\* stopProgressReporting()
stopProgressReporting ==
  IF progressInterval
  THEN /\ progressInterval' = FALSE
       /\ intervals' = intervals - 1
  ELSE UNCHANGED <<progressInterval, intervals>>

\* mutant: doUnlockAudio does not check the unlock flag
UnlockBlockedDisabledOnly == ~audioConfig.enabled

\* the early return of doUnlockAudio
UnlockBlocked == audioUnlocked \/ ~audioConfig.enabled

\* mutant: the subscriptions that did not fire stay attached
removeUnlockListenersSkipped(attached) == attached

\* removeUnlockListeners(): doUnlockAudio is detached from every watched event
removeUnlockListeners(attached) == attached \ unlockEvents

\* doUnlockAudio(), called with the listeners attached at that moment
doUnlockAudio(attached) ==
  IF UnlockBlocked
  THEN /\ unlockListeners' = attached
       /\ out' = <<>>
       /\ UNCHANGED <<audioUnlocked, audioCtx, masterGain, progressInterval,
                      intervals, unlockRuns>>
  ELSE /\ initAudioContext
       /\ audioUnlocked' = TRUE
       /\ out' = <<RegisterAudioPlayer>>
       /\ startProgressReporting
       /\ unlockListeners' = removeUnlockListeners(attached)
       /\ unlockRuns' = unlockRuns + 1

\* mutant: the preset loop is missing, the preset slots stay live
stopAllAudioKeepsPresets ==
  /\ ambientAudios' = EmptyMap
  /\ presetAudios' = presetAudios
  /\ ttsAudio' = NoAudio
  /\ orphans' = orphans
          \cup UNION {Released(TearDown(e)) : e \in Values(ambientAudios)}
          \cup (IF ttsAudio # NoAudio THEN Released(TearDown(ttsAudio)) ELSE {})
  /\ tornDown' = Len(ambientAudios) + (IF ttsAudio # NoAudio THEN 1 ELSE 0)

\* stopAllAudio(): every element is paused, its source released, the sets
\* cleared
stopAllAudio ==
  /\ ambientAudios' = EmptyMap
  /\ presetAudios' = EmptyMap
  /\ ttsAudio' = NoAudio
  /\ orphans' = orphans
          \cup UNION {Released(TearDown(e)) : e \in Values(ambientAudios)}
          \cup UNION {Released(TearDown(e)) : e \in Values(presetAudios)}
          \cup (IF ttsAudio # NoAudio THEN Released(TearDown(ttsAudio)) ELSE {})
  /\ tornDown' = Len(ambientAudios) + Len(presetAudios)
                  + (IF ttsAudio # NoAudio THEN 1 ELSE 0)


\* ------------------------------------------------------- ambient layer

\* mutant: the instance already registered is overwritten as it is
ReplacedAmbientLeft(soundId) ==
  IF Has(ambientAudios, soundId)
  THEN {Get(ambientAudios, soundId)}
  ELSE {}

\* play-ambient: the instance already registered under soundId, as the
\* handler leaves it
ReplacedAmbient(soundId) ==
  IF Has(ambientAudios, soundId)
  THEN {TearDown(Get(ambientAudios, soundId))}
  ELSE {}

\* the elements of S that were left without being torn down
Leaked(S) == UNION {Released(e) : e \in S}
\* the elements of S that were torn down
TornDownIn(S) == Cardinality({e \in S : IsTornDown(e)})

\* socket.on("audio:play-ambient")
PlayAmbient(soundId, file, volume, ok) ==
  /\ NoDispatch
  /\ last' = Cmd("audio:play-ambient", soundId, -1, file, volume, -1, ok)
  /\ out' = <<>>
  /\ IF ~PlayAllowed
     THEN /\ constructed' = 0
          /\ tornDown' = 0
          /\ UNCHANGED <<ambientAudios, orphans>>
     ELSE LET new == [NewAudio("ambient", -1, AmbientUrl(file))
                        EXCEPT !.loop = TRUE,
                               !.volume = IF volume = NoVolume
                                          THEN DefaultAmbientVolume ELSE volume]
              audio == Play(routeThroughMaster(new), ok)
          IN /\ orphans' = orphans \cup Leaked(ReplacedAmbient(soundId))
             /\ tornDown' = TornDownIn(ReplacedAmbient(soundId))
             /\ ambientAudios' = MapSet(ambientAudios, soundId, audio)
             /\ constructed' = 1
  /\ UNCHANGED <<audioConfig, audioUnlocked, audioCtx, masterGain, masterVolume,
                 iaVolume, presetAudios, ttsAudio, progressInterval, intervals,
                 unlockListeners, liveUrls, unlockRuns>>

\* socket.on("audio:stop-ambient")
StopAmbient(soundId) ==
  /\ NoDispatch
  /\ last' = Cmd("audio:stop-ambient", soundId, -1, "", NoVolume, -1, TRUE)
  /\ out' = <<>>
  /\ constructed' = 0
  /\ IF Has(ambientAudios, soundId)
     THEN /\ orphans' = orphans
               \cup Released(TearDown(Get(ambientAudios, soundId)))
          /\ tornDown' = 1
          /\ ambientAudios' = MapDelete(ambientAudios, soundId)
     ELSE /\ tornDown' = 0
          /\ UNCHANGED <<ambientAudios, orphans>>
  /\ UNCHANGED <<audioConfig, audioUnlocked, audioCtx, masterGain, masterVolume,
                 iaVolume, presetAudios, ttsAudio, progressInterval, intervals,
                 unlockListeners, liveUrls, unlockRuns>>

\* socket.on("audio:volume-ambient")
VolumeAmbient(soundId, volume) ==
  /\ NoDispatch
  /\ last' = Cmd("audio:volume-ambient", soundId, -1, "", volume, -1, TRUE)
  /\ out' = <<>>
  /\ constructed' = 0
  /\ tornDown' = 0
  /\ IF Has(ambientAudios, soundId)
     THEN ambientAudios' = MapSet(ambientAudios, soundId,
               [Get(ambientAudios, soundId) EXCEPT !.volume = volume])
     ELSE UNCHANGED ambientAudios
  /\ UNCHANGED <<audioConfig, audioUnlocked, audioCtx, masterGain, masterVolume,
                 iaVolume, presetAudios, ttsAudio, progressInterval, intervals,
                 unlockListeners, liveUrls, orphans, unlockRuns>>

\* --------------------------------------------------------- preset layer

\* mutant: play-preset always constructs a new element
ResumeNever(presetIdx) == FALSE

\* play-preset takes its resume branch: existing && existing.src
ResumeExisting(presetIdx) ==
  /\ Has(presetAudios, presetIdx)
  /\ Get(presetAudios, presetIdx).src # NoSrc

\* socket.on("audio:play-preset")
PlayPreset(presetIdx, file, ok) ==
  /\ NoDispatch
  /\ last' = Cmd("audio:play-preset", "", presetIdx, file, NoVolume, -1, ok)
  /\ out' = <<>>
  /\ IF ~PlayAllowed
     THEN /\ constructed' = 0
          /\ tornDown' = 0
          /\ UNCHANGED <<presetAudios, orphans>>
     ELSE IF ResumeExisting(presetIdx)
     THEN /\ presetAudios' = MapSet(presetAudios, presetIdx,
               Play([Get(presetAudios, presetIdx) EXCEPT !.volume = iaVolume], ok))
          /\ constructed' = 0
          /\ tornDown' = 0
          /\ UNCHANGED orphans
     ELSE LET new == [NewAudio("preset", presetIdx, PresetUrl(file))
                        EXCEPT !.volume = iaVolume]
              audio == Play(routeThroughMaster(new), ok)
          IN /\ orphans' = orphans \cup
                    (IF Has(presetAudios, presetIdx)
                     THEN Released(Get(presetAudios, presetIdx)) ELSE {})
             /\ presetAudios' = MapSet(presetAudios, presetIdx, audio)
             /\ constructed' = 1
             /\ tornDown' = 0
  /\ UNCHANGED <<audioConfig, audioUnlocked, audioCtx, masterGain, masterVolume,
                 iaVolume, ambientAudios, ttsAudio, progressInterval, intervals,
                 unlockListeners, liveUrls, unlockRuns>>

\* socket.on("audio:pause-preset")
PausePreset(presetIdx) ==
  /\ NoDispatch
  /\ last' = Cmd("audio:pause-preset", "", presetIdx, "", NoVolume, -1, TRUE)
  /\ out' = <<>>
  /\ constructed' = 0
  /\ tornDown' = 0
  /\ IF Has(presetAudios, presetIdx)
     THEN presetAudios' = MapSet(presetAudios, presetIdx,
               Pause(Get(presetAudios, presetIdx)))
     ELSE UNCHANGED presetAudios
  /\ UNCHANGED <<audioConfig, audioUnlocked, audioCtx, masterGain, masterVolume,
                 iaVolume, ambientAudios, ttsAudio, progressInterval, intervals,
                 unlockListeners, liveUrls, orphans, unlockRuns>>

\* socket.on("audio:seek-preset")
SeekPreset(presetIdx, time) ==
  /\ NoDispatch
  /\ last' = Cmd("audio:seek-preset", "", presetIdx, "", NoVolume, time, TRUE)
  /\ out' = <<>>
  /\ constructed' = 0
  /\ tornDown' = 0
  /\ IF Has(presetAudios, presetIdx)
     THEN presetAudios' = MapSet(presetAudios, presetIdx,
               [Get(presetAudios, presetIdx) EXCEPT !.currentTime = time])
     ELSE UNCHANGED presetAudios
  /\ UNCHANGED <<audioConfig, audioUnlocked, audioCtx, masterGain, masterVolume,
                 iaVolume, ambientAudios, ttsAudio, progressInterval, intervals,
                 unlockListeners, liveUrls, orphans, unlockRuns>>

\* mutant: stop-preset keeps the torn-down element registered
StoppedPresetsKept(presetIdx) ==
  MapSet(presetAudios, presetIdx, TearDown(Get(presetAudios, presetIdx)))

\* the live preset set after stop-preset
StoppedPresets(presetIdx) == MapDelete(presetAudios, presetIdx)

\* socket.on("audio:stop-preset")
StopPreset(presetIdx) ==
  /\ NoDispatch
  /\ last' = Cmd("audio:stop-preset", "", presetIdx, "", NoVolume, -1, TRUE)
  /\ out' = <<>>
  /\ constructed' = 0
  /\ IF Has(presetAudios, presetIdx)
     THEN /\ orphans' = orphans
               \cup Released(TearDown(Get(presetAudios, presetIdx)))
          /\ tornDown' = 1
          /\ presetAudios' = StoppedPresets(presetIdx)
     ELSE /\ tornDown' = 0
          /\ UNCHANGED <<presetAudios, orphans>>
  /\ UNCHANGED <<audioConfig, audioUnlocked, audioCtx, masterGain, masterVolume,
                 iaVolume, ambientAudios, ttsAudio, progressInterval, intervals,
                 unlockListeners, liveUrls, unlockRuns>>

\* preset elements that are sounding, registered or not
SoundingPresets ==
  {e \in Values(presetAudios) : ~e.paused}
  \cup {e \in orphans : e.kind = "preset" /\ ~e.paused}

\* mutant: the onended closure does not delete the slot
EndedPresetsKept(presetIdx) == presetAudios

\* the live preset set after the onended closure of a preset has run
EndedPresets(presetIdx) == MapDelete(presetAudios, presetIdx)

\* audio.onended of a preset: the terminal report, then the slot of the
\* closure's presetIdx is deleted
PresetOnEnded(audio) ==
  /\ out' = <<Ev("audio:preset-progress", audio.presetIdx, audio.duration,
                 audio.duration, TRUE)>>
  /\ presetAudios' = EndedPresets(audio.presetIdx)
  /\ orphans' = (orphans \ {audio}) \cup
        (IF /\ Has(presetAudios, audio.presetIdx)
            /\ Get(presetAudios, audio.presetIdx) # audio
         THEN Released(Get(presetAudios, audio.presetIdx)) ELSE {})

\* the platform: playback of a preset element reaches the end of the clip
\* (the element becomes paused) and its ended event is dispatched
PresetEnded(audio) ==
  /\ audio \in SoundingPresets
  /\ audio.duration # 0
  /\ audio.currentTime = audio.duration
  /\ NoDispatch
  /\ last' = Cmd("ended", "", audio.presetIdx, "", NoVolume, -1, TRUE)
  /\ constructed' = 0
  /\ tornDown' = 0
  /\ PresetOnEnded(audio)
  /\ UNCHANGED <<audioConfig, audioUnlocked, audioCtx, masterGain, masterVolume,
                 iaVolume, ambientAudios, ttsAudio, progressInterval, intervals,
                 unlockListeners, liveUrls, unlockRuns>>

\* the platform: the metadata of a registered preset element is loaded
LoadedMetadata(presetIdx) ==
  /\ Has(presetAudios, presetIdx)
  /\ Get(presetAudios, presetIdx).duration = 0
  /\ Get(presetAudios, presetIdx).src # NoSrc
  /\ presetAudios' = MapSet(presetAudios, presetIdx,
          [Get(presetAudios, presetIdx) EXCEPT !.duration = Duration])
  /\ NoDispatch
  /\ last' = Cmd("loadedmetadata", "", presetIdx, "", NoVolume, -1, TRUE)
  /\ out' = <<>>
  /\ constructed' = 0
  /\ tornDown' = 0
  /\ UNCHANGED <<audioConfig, audioUnlocked, audioCtx, masterGain, masterVolume,
                 iaVolume, ambientAudios, ttsAudio, progressInterval, intervals,
                 unlockListeners, liveUrls, orphans, unlockRuns>>

\* the platform: playback of a sounding preset element advances
Advance(presetIdx) ==
  /\ Has(presetAudios, presetIdx)
  /\ ~Get(presetAudios, presetIdx).paused
  /\ Get(presetAudios, presetIdx).duration # 0
  /\ Get(presetAudios, presetIdx).currentTime < Get(presetAudios, presetIdx).duration
  /\ presetAudios' = MapSet(presetAudios, presetIdx,
          [Get(presetAudios, presetIdx) EXCEPT !.currentTime = @ + 1])
  /\ NoDispatch
  /\ last' = Cmd("timeupdate", "", presetIdx, "", NoVolume, -1, TRUE)
  /\ out' = <<>>
  /\ constructed' = 0
  /\ tornDown' = 0
  /\ UNCHANGED <<audioConfig, audioUnlocked, audioCtx, masterGain, masterVolume,
                 iaVolume, ambientAudios, ttsAudio, progressInterval, intervals,
                 unlockListeners, liveUrls, orphans, unlockRuns>>


\* --------------------------------------------------------- speech layer

\* mutant: the clip in flight is overwritten as it is
ReplacedSpeechLeft == IF ttsAudio # NoAudio THEN {ttsAudio} ELSE {}

\* play-tts: the clip in flight, as the handler leaves it
ReplacedSpeech == IF ttsAudio # NoAudio THEN {TearDown(ttsAudio)} ELSE {}

\* socket.on("audio:play-tts")
PlayTTS(audioBase64, ok) ==
  /\ PlayAllowed => liveUrls < MaxUrls
  /\ NoDispatch
  /\ last' = Cmd("audio:play-tts", "", -1, audioBase64, NoVolume, -1, ok)
  /\ out' = <<>>
  /\ IF ~PlayAllowed
     THEN /\ constructed' = 0
          /\ tornDown' = 0
          /\ UNCHANGED <<ttsAudio, liveUrls, orphans>>
     ELSE LET new == [NewAudio("tts", -1, BlobUrl(audioBase64))
                        EXCEPT !.volume = iaVolume]
          IN /\ orphans' = orphans \cup Leaked(ReplacedSpeech)
             /\ tornDown' = TornDownIn(ReplacedSpeech)
             /\ liveUrls' = liveUrls + 1
             /\ ttsAudio' = Play(routeThroughMaster(new), ok)
             /\ constructed' = 1
  /\ UNCHANGED <<audioConfig, audioUnlocked, audioCtx, masterGain, masterVolume,
                 iaVolume, ambientAudios, presetAudios, progressInterval,
                 intervals, unlockListeners, unlockRuns>>

\* speech elements that are sounding, registered or not
SoundingSpeech ==
  (IF ttsAudio # NoAudio /\ ~ttsAudio.paused THEN {ttsAudio} ELSE {})
  \cup {e \in orphans : e.kind = "tts" /\ ~e.paused}

\* the platform: a speech element reaches its end; ttsAudio.onended revokes
\* the URL of its closure and clears the singleton
TtsEnded(audio) ==
  /\ audio \in SoundingSpeech
  /\ NoDispatch
  /\ last' = Op("tts-ended")
  /\ out' = <<>>
  /\ constructed' = 0
  /\ tornDown' = 0
  /\ liveUrls' = liveUrls - 1
  /\ ttsAudio' = NoAudio
  /\ orphans' = (orphans \ {audio}) \cup
        (IF ttsAudio # NoAudio /\ ttsAudio # audio
         THEN Released(ttsAudio) ELSE {})
  /\ UNCHANGED <<audioConfig, audioUnlocked, audioCtx, masterGain, masterVolume,
                 iaVolume, ambientAudios, presetAudios, progressInterval,
                 intervals, unlockListeners, unlockRuns>>

\* ---------------------------------------------------- volume controller

\* mutant: volume-ia does not reach the speech clip
IaSpeechSkipped(volume) == ttsAudio

\* the speech clip after volume-ia
IaSpeech(volume) ==
  IF ttsAudio # NoAudio THEN [ttsAudio EXCEPT !.volume = volume] ELSE ttsAudio

\* socket.on("audio:volume-ia")
VolumeIa(volume) ==
  /\ NoDispatch
  /\ last' = Cmd("audio:volume-ia", "", -1, "", volume, -1, TRUE)
  /\ out' = <<>>
  /\ constructed' = 0
  /\ tornDown' = 0
  /\ iaVolume' = volume
  /\ presetAudios' = [i \in DOMAIN presetAudios |->
        [k |-> presetAudios[i].k,
         v |-> [presetAudios[i].v EXCEPT !.volume = volume]]]
  /\ ttsAudio' = IaSpeech(volume)
  /\ UNCHANGED <<audioConfig, audioUnlocked, audioCtx, masterGain, masterVolume,
                 ambientAudios, progressInterval, intervals, unlockListeners,
                 liveUrls, orphans, unlockRuns>>

\* mutant: master-volume retunes every ambient element
MasterAmbientsRetuned(volume) ==
  [i \in DOMAIN ambientAudios |->
     [k |-> ambientAudios[i].k,
      v |-> [ambientAudios[i].v EXCEPT !.volume = volume]]]

\* the ambient set after master-volume: individual volumes are not touched
MasterAmbients(volume) == ambientAudios

\* socket.on("audio:master-volume")
MasterVolume(volume) ==
  /\ NoDispatch
  /\ last' = Cmd("audio:master-volume", "", -1, "", volume, -1, TRUE)
  /\ out' = <<>>
  /\ constructed' = 0
  /\ tornDown' = 0
  /\ masterVolume' = volume
  /\ masterGain' = IF masterGain # NoGain THEN volume ELSE masterGain
  /\ ambientAudios' = MasterAmbients(volume)
  /\ UNCHANGED <<audioConfig, audioUnlocked, audioCtx, iaVolume, presetAudios,
                 ttsAudio, progressInterval, intervals, unlockListeners,
                 liveUrls, orphans, unlockRuns>>

\* socket.on("audio:stop-all")
StopAll ==
  /\ NoDispatch
  /\ last' = Op("audio:stop-all")
  /\ out' = <<>>
  /\ constructed' = 0
  /\ stopAllAudio
  /\ UNCHANGED <<audioConfig, audioUnlocked, audioCtx, masterGain, masterVolume,
                 iaVolume, progressInterval, intervals, unlockListeners,
                 liveUrls, unlockRuns>>

\* ------------------------------------------------------ progress reporter

\* mutant: the tick does not look at the paused flag
ReportableWhenPaused(audio) == audio.duration # 0

\* the tick's condition on one entry: !audio.paused && audio.duration
Reportable(audio) == ~audio.paused /\ audio.duration # 0

RECURSIVE ProgressEvents(_)
\* the events of one tick: the entries of the Map in insertion order
ProgressEvents(m) ==
  IF m = <<>> THEN <<>>
  ELSE LET idx == Head(m).k
           audio == Head(m).v
           rest == ProgressEvents(Tail(m))
       IN IF Reportable(audio)
          THEN <<Ev("audio:preset-progress", idx, audio.currentTime,
                    audio.duration, FALSE)>> \o rest
          ELSE rest

\* the setInterval callback of startProgressReporting
Tick ==
  /\ intervals > 0
  /\ NoDispatch
  /\ last' = Op("tick")
  /\ out' = ProgressEvents(presetAudios)
  /\ constructed' = 0
  /\ tornDown' = 0
  /\ UNCHANGED <<audioConfig, audioUnlocked, audioCtx, masterGain, masterVolume,
                 iaVolume, ambientAudios, presetAudios, ttsAudio,
                 progressInterval, intervals, unlockListeners, liveUrls,
                 orphans, unlockRuns>>

\* ------------------------------------------------- transport and gestures

\* mutant: presence is re-announced whenever the gate is unlocked
AnnounceOnConnectUnlockedOnly == audioUnlocked

\* connect handler: the condition of the presence announcement
AnnounceOnConnect == audioUnlocked /\ audioConfig.enabled

\* a "connect" of the transport: the module's own handler makes the audio
\* announcement, then the caller's listeners run in the order they were added
Connect ==
  /\ invoked' = socketListeners["connect"]
  /\ UNCHANGED <<socketListeners, latestCallback>>
  /\ UNCHANGED appVars
  /\ last' = Op("connect")
  /\ out' = IF AnnounceOnConnect THEN <<RegisterAudioPlayer>> ELSE <<>>
  /\ constructed' = 0
  /\ tornDown' = 0
  /\ UNCHANGED <<audioConfig, audioUnlocked, audioCtx, masterGain, masterVolume,
                 iaVolume, ambientAudios, presetAudios, ttsAudio,
                 progressInterval, intervals, unlockListeners, liveUrls,
                 orphans, unlockRuns>>

\* a watched window event fires: the listener is one-shot (once: true), so
\* the platform detaches it, then calls doUnlockAudio
Gesture(event) ==
  /\ event \in unlockListeners
  /\ NoDispatch
  /\ last' = Cmd("gesture", event, -1, "", NoVolume, -1, TRUE)
  /\ constructed' = 0
  /\ tornDown' = 0
  /\ doUnlockAudio(unlockListeners \ {event})
  /\ UNCHANGED <<audioConfig, masterVolume, iaVolume, ambientAudios,
                 presetAudios, ttsAudio, liveUrls, orphans>>

\* -------------------------------------------------- caller subscriptions

\* socket.off(name): every listener of the event is removed
OffAll(listeners) == <<>>

\* socket.off(name, callback): the listener that is this function is removed
Off(listeners, callback) ==
  LET Other(f) == f # callback IN SelectSeq(listeners, Other)

\* socket.on(name, callback)
On(listeners, callback) == Append(listeners, callback)

\* a registration through the API: the listeners of the event after it
Register(op, name, callback, listeners) ==
  /\ socketListeners' = [socketListeners EXCEPT ![name] = listeners]
  /\ latestCallback' = [latestCallback EXCEPT ![name] = callback]
  /\ invoked' = <<>>
  /\ UNCHANGED appVars
  /\ last' = Cmd(op, name, callback, "", NoVolume, -1, TRUE)
  /\ out' = <<>>
  /\ constructed' = 0
  /\ tornDown' = 0
  /\ UNCHANGED <<audioConfig, audioUnlocked, audioCtx, masterGain, masterVolume,
                 iaVolume, ambientAudios, presetAudios, ttsAudio,
                 progressInterval, intervals, unlockListeners, liveUrls,
                 orphans, unlockRuns>>

\* gamemaster.onCommand(callback): the listener added is a wrapper that calls
\* the callback
OnCommand(callback) ==
  Register("onCommand", "command", callback,
           On(OffAll(socketListeners["command"]), callback))

\* gamemaster.onMessage(callback)
OnMessage(callback) ==
  Register("onMessage", "game-message", callback,
           On(OffAll(socketListeners["game-message"]), callback))

\* gamemaster.onConnect(callback)
OnConnect(callback) ==
  Register("onConnect", "connect", callback,
           On(Off(socketListeners["connect"], callback), callback))

\* gamemaster.onDisconnect(callback)
OnDisconnect(callback) ==
  Register("onDisconnect", "disconnect", callback,
           On(Off(socketListeners["disconnect"], callback), callback))

\* an inbound "command", "game-message" or "disconnect": the caller's
\* listeners of the event run in the order they were added (the module's own
\* "disconnect" handler only logs); what the App's command callback does is
\* the App's actions
Deliver(name) ==
  /\ invoked' = socketListeners[name]
  /\ UNCHANGED <<socketListeners, latestCallback>>
  /\ UNCHANGED appVars
  /\ last' = Op(name)
  /\ out' = <<>>
  /\ constructed' = 0
  /\ tornDown' = 0
  /\ UNCHANGED <<audioConfig, audioUnlocked, audioCtx, masterGain, masterVolume,
                 iaVolume, ambientAudios, presetAudios, ttsAudio,
                 progressInterval, intervals, unlockListeners, liveUrls,
                 orphans, unlockRuns>>

\* ---------------------------------------------------------- audio API

\* { ...audioConfig, ...config }
Merge(old, new) == IF new = "unset" THEN old ELSE (new = "true")

\* gamemaster.configureAudio(config)
ConfigureAudio(enabled, autoUnlock) ==
  /\ NoDispatch
  /\ last' = Cmd("configureAudio", enabled, -1, autoUnlock, NoVolume, -1, TRUE)
  /\ out' = <<>>
  /\ constructed' = 0
  /\ audioConfig' = [enabled |-> Merge(audioConfig.enabled, enabled)]
  /\ unlockListeners' = IF enabled = "true" /\ autoUnlock # "false"
                        THEN unlockListeners \cup unlockEvents
                        ELSE unlockListeners
  /\ IF enabled = "false"
     THEN stopAllAudio /\ stopProgressReporting
     ELSE /\ tornDown' = 0
          /\ UNCHANGED <<ambientAudios, presetAudios, ttsAudio, orphans,
                         progressInterval, intervals>>
  /\ UNCHANGED <<audioUnlocked, audioCtx, masterGain, masterVolume, iaVolume,
                 liveUrls, unlockRuns>>

\* gamemaster.unlockAudio()
UnlockAudio ==
  /\ NoDispatch
  /\ last' = Op("unlockAudio")
  /\ constructed' = 0
  /\ tornDown' = 0
  /\ IF audioUnlocked \/ ~audioConfig.enabled
     THEN /\ out' = <<>>
          /\ UNCHANGED <<audioUnlocked, audioCtx, masterGain, progressInterval,
                         intervals, unlockListeners, unlockRuns>>
     ELSE doUnlockAudio(unlockListeners)
  /\ UNCHANGED <<audioConfig, masterVolume, iaVolume, ambientAudios,
                 presetAudios, ttsAudio, liveUrls, orphans>>

\* mutant: disabling audio locks the gate again
UnlockedAfterDisableReset == FALSE

\* disableAudio does not touch the unlock flag
UnlockedAfterDisable == audioUnlocked

\* gamemaster.disableAudio()
DisableAudio ==
  /\ NoDispatch
  /\ last' = Op("disableAudio")
  /\ out' = <<>>
  /\ constructed' = 0
  /\ audioConfig' = [audioConfig EXCEPT !.enabled = FALSE]
  /\ stopAllAudio
  /\ stopProgressReporting
  /\ audioUnlocked' = UnlockedAfterDisable
  /\ UNCHANGED <<audioCtx, masterGain, masterVolume, iaVolume,
                 unlockListeners, liveUrls, unlockRuns>>

\* gamemaster.enableAudio()
EnableAudio ==
  /\ NoDispatch
  /\ last' = Op("enableAudio")
  /\ constructed' = 0
  /\ tornDown' = 0
  /\ audioConfig' = [audioConfig EXCEPT !.enabled = TRUE]
  /\ IF audioUnlocked
     THEN /\ out' = <<RegisterAudioPlayer>>
          /\ startProgressReporting
     ELSE /\ out' = <<>>
          /\ UNCHANGED <<progressInterval, intervals>>
  /\ UNCHANGED <<audioUnlocked, audioCtx, masterGain, masterVolume, iaVolume,
                 ambientAudios, presetAudios, ttsAudio, unlockListeners,
                 liveUrls, orphans, unlockRuns>>

\* ------------------------------------------------- message display (App)

\* messagesData: a message is its id and its content, a sequence of
\* characters
predefinedMessages ==
  << [id |-> "m1", content |-> <<"a">>],
     [id |-> "m2", content |-> <<"b", "c">>] >>

\* the messageId values of send_predefined and msg_<id>, one of them unknown
MessageIds == {"m1", "m2", "zz"}
\* the content values of send_custom
CustomContents == {<<"x">>}

\* predefinedMessages.find(m => m.id === messageId)
Find(messageId) ==
  LET Is(m) == m.id = messageId IN SelectSeq(predefinedMessages, Is)

\* content.slice(0, n)
Slice(content, n) == SubSeq(content, 1, n)

\* the App's refs and state as one value
App ==
  [messageQueue |-> messageQueue, isProcessing |-> isProcessing,
   currentMessage |-> currentMessage, isTyping |-> isTyping,
   isFadingOut |-> isFadingOut, isVisible |-> isVisible, shows |-> shows,
   enqueued |-> enqueued, started |-> started, resolved |-> resolved]

\* the refs and state after a handler
SetApp(s) ==
  /\ messageQueue' = s.messageQueue
  /\ isProcessing' = s.isProcessing
  /\ currentMessage' = s.currentMessage
  /\ isTyping' = s.isTyping
  /\ isFadingOut' = s.isFadingOut
  /\ isVisible' = s.isVisible
  /\ shows' = s.shows
  /\ enqueued' = s.enqueued
  /\ started' = s.started
  /\ resolved' = s.resolved

\* showMessage(message), up to its first timer: the promise is pending, the
\* 200 ms timer of typeChar is armed
showMessage(s, message) ==
  [s EXCEPT !.currentMessage = <<>>,
            !.isTyping = TRUE,
            !.isFadingOut = FALSE,
            !.isVisible = TRUE,
            !.shows = Append(@, [message |-> message, phase |-> "typing",
                                 charIndex |-> 0]),
            !.started = Append(@, message)]

\* the while loop of processMessageQueue, from its test to the next await
\* or to its exit
Loop(s) ==
  IF Len(s.messageQueue) > 0
  THEN showMessage([s EXCEPT !.messageQueue = Tail(@)], Head(s.messageQueue))
  ELSE [s EXCEPT !.isProcessing = FALSE]

\* mutant: the guard does not look at isProcessingRef
AlreadyProcessingIgnored(s) == FALSE

\* processMessageQueue: the isProcessingRef half of the guard
AlreadyProcessing(s) == s.isProcessing

\* processMessageQueue(), up to its first await
processMessageQueue(s) ==
  IF AlreadyProcessing(s) \/ Len(s.messageQueue) = 0
  THEN s
  ELSE Loop([s EXCEPT !.isProcessing = TRUE])

\* addMessageToQueue(message)
addMessageToQueue(s, message) ==
  processMessageQueue([s EXCEPT !.messageQueue = Append(@, message),
                                !.enqueued = Append(@, message)])

RECURSIVE ForEach(_, _)
\* messages.forEach(m => addMessageToQueue(m))
ForEach(s, messages) ==
  IF messages = <<>> THEN s
  ELSE ForEach(addMessageToQueue(s, Head(messages)), Tail(messages))

\* a step of the App: the audio engine and the socket are not involved
AppStep(op, arg) ==
  /\ last' = Cmd(op, arg, -1, "", NoVolume, -1, TRUE)
  /\ out' = <<>>
  /\ constructed' = 0
  /\ tornDown' = 0
  /\ invoked' = <<>>
  /\ UNCHANGED <<socketListeners, latestCallback>>
  /\ UNCHANGED <<audioConfig, audioUnlocked, audioCtx, masterGain, masterVolume,
                 iaVolume, ambientAudios, presetAudios, ttsAudio,
                 progressInterval, intervals, unlockListeners, liveUrls,
                 orphans, unlockRuns>>

\* sendPredefinedMessage(messageId): the send_predefined and msg_<id>
\* commands, and the buttons
SendPredefinedMessage(messageId) ==
  /\ Len(enqueued) < MaxEnqueued
  /\ AppStep("send_predefined", messageId)
  /\ SetApp(ForEach(App, Find(messageId)))

\* sendCustomMessage(content): the send_custom command and the form
SendCustomMessage(content) ==
  /\ Len(enqueued) < MaxEnqueued
  /\ AppStep("send_custom", "")
  /\ SetApp(addMessageToQueue(App, [id |-> "custom", content |-> content]))

\* the start_sequence command: every predefined message is enqueued
StartSequence ==
  /\ Len(enqueued) + Len(predefinedMessages) <= MaxEnqueued
  /\ AppStep("start_sequence", "")
  /\ SetApp(ForEach(App, predefinedMessages))

\* shows without its i-th entry
Without(i) == SubSeq(shows, 1, i - 1) \o SubSeq(shows, i + 1, Len(shows))

\* the typeChar timer of a pending showMessage fires
TypeChar(i) ==
  /\ i \in DOMAIN shows
  /\ shows[i].phase = "typing"
  /\ AppStep("typeChar", shows[i].message.id)
  /\ LET content == shows[i].message.content
         charIndex == shows[i].charIndex
     IN IF charIndex < Len(content)
        THEN SetApp([App EXCEPT
                 !.currentMessage = Slice(content, charIndex + 1),
                 !.shows[i].charIndex = charIndex + 1])
        ELSE SetApp([App EXCEPT !.isTyping = FALSE,
                                !.shows[i].phase = "displayed"])

\* the display timer fires: the fade-out starts
DisplayElapsed(i) ==
  /\ i \in DOMAIN shows
  /\ shows[i].phase = "displayed"
  /\ AppStep("displayElapsed", shows[i].message.id)
  /\ SetApp([App EXCEPT !.isFadingOut = TRUE, !.shows[i].phase = "fading"])

\* the 800 ms timer fires: the message is hidden
FadeElapsed(i) ==
  /\ i \in DOMAIN shows
  /\ shows[i].phase = "fading"
  /\ AppStep("fadeElapsed", shows[i].message.id)
  /\ SetApp([App EXCEPT !.isVisible = FALSE, !.isFadingOut = FALSE,
                        !.currentMessage = <<>>,
                        !.shows[i].phase = "hidden"])

\* the 300 ms timer fires: the promise resolves and the processMessageQueue
\* that awaits it goes on with its loop
Resolve(i) ==
  /\ i \in DOMAIN shows
  /\ shows[i].phase = "hidden"
  /\ AppStep("resolve", shows[i].message.id)
  /\ SetApp(Loop([App EXCEPT !.shows = Without(i),
                             !.resolved = Append(@, shows[i].message)]))

\* the timers of the pending showMessage promises
Timers ==
  \/ \E i \in DOMAIN shows : TypeChar(i)
  \/ \E i \in DOMAIN shows : DisplayElapsed(i)
  \/ \E i \in DOMAIN shows : FadeElapsed(i)
  \/ \E i \in DOMAIN shows : Resolve(i)

\* ------------------------------------------------------- specification

\* the unlock gate, the configuration, the volume controller, the reporter
\* timer, the transport: what every layer shares
CoreOver(volumes) ==
  \/ \E v \in volumes : VolumeIa(v)
  \/ \E v \in volumes : MasterVolume(v)
  \/ StopAll
  \/ Tick
  \/ Connect
  \/ \E ev \in unlockEvents : Gesture(ev)
  \/ \E en \in ConfigValues, au \in ConfigValues : ConfigureAudio(en, au)
  \/ UnlockAudio
  \/ DisableAudio
  \/ EnableAudio

Core == CoreOver(Volumes)

AmbientLayer ==
  \/ \E id \in AmbientIds, f \in AmbientFiles, v \in Volumes \cup {NoVolume},
        ok \in BOOLEAN : PlayAmbient(id, f, v, ok)
  \/ \E id \in AmbientIds : StopAmbient(id)
  \/ \E id \in AmbientIds, v \in Volumes : VolumeAmbient(id, v)

PresetLayer ==
  \/ \E idx \in PresetIdxs, f \in PresetFiles, ok \in BOOLEAN :
        PlayPreset(idx, f, ok)
  \/ \E idx \in PresetIdxs : PausePreset(idx)
  \/ \E idx \in PresetIdxs, t \in SeekTimes : SeekPreset(idx, t)
  \/ \E idx \in PresetIdxs : StopPreset(idx)
  \/ \E audio \in SoundingPresets : PresetEnded(audio)
  \/ \E idx \in PresetIdxs : LoadedMetadata(idx)
  \/ \E idx \in PresetIdxs : Advance(idx)

SpeechLayer ==
  \/ \E p \in Payloads, ok \in BOOLEAN : PlayTTS(p, ok)
  \/ \E audio \in SoundingSpeech : TtsEnded(audio)

\* the preset layer with the shared core, over all its inputs
NextPreset == Core \/ PresetLayer
SpecPreset == Init /\ [][NextPreset]_vars

\* the ambient layer with the shared core, over all its inputs
NextAmbient == Core \/ AmbientLayer
SpecAmbient == Init /\ [][NextAmbient]_vars

\* the speech layer with the shared core, over all its inputs
NextSpeech == Core \/ SpeechLayer
SpecSpeech == Init /\ [][NextSpeech]_vars

\* the whole engine: every handler of every layer together, with the play
\* requests accepted by the platform, one file per layer and one volume
Next ==
  \/ CoreOver({80})
  \/ \E id \in AmbientIds, v \in {80, NoVolume} :
        PlayAmbient(id, "rain.mp3", v, TRUE)
  \/ \E id \in AmbientIds : StopAmbient(id)
  \/ \E id \in AmbientIds : VolumeAmbient(id, 80)
  \/ \E idx \in PresetIdxs : PlayPreset(idx, "a.mp3", TRUE)
  \/ \E idx \in PresetIdxs : PausePreset(idx)
  \/ \E idx \in PresetIdxs, t \in SeekTimes : SeekPreset(idx, t)
  \/ \E idx \in PresetIdxs : StopPreset(idx)
  \/ \E audio \in SoundingPresets : PresetEnded(audio)
  \/ \E idx \in PresetIdxs : LoadedMetadata(idx)
  \/ \E idx \in PresetIdxs : Advance(idx)
  \/ PlayTTS("p1", TRUE)
  \/ \E audio \in SoundingSpeech : TtsEnded(audio)

Spec == Init /\ [][Next]_vars

\* the caller's subscriptions: registrations through the API with any of
\* the caller's callbacks, and the inbound events of the four names
NextSubscriptions ==
  \/ \E f \in Callbacks : OnCommand(f)
  \/ \E f \in Callbacks : OnMessage(f)
  \/ \E f \in Callbacks : OnConnect(f)
  \/ \E f \in Callbacks : OnDisconnect(f)
  \/ \E name \in CallerEvents \ {"connect"} : Deliver(name)
  \/ Connect

SpecSubscriptions == Init /\ [][NextSubscriptions]_vars

\* two ambient sounds and two preset slots beside the speech clip
MixAmbientIds == {"rain", "wind"}
MixPresetIdxs == {0, 1}

\* the three layers together, the platform accepting or rejecting each play
\* request: the gate is unlocked through the API, each layer has one file
NextMix ==
  \/ UnlockAudio
  \/ \E id \in MixAmbientIds, ok \in BOOLEAN :
        PlayAmbient(id, "rain.mp3", NoVolume, ok)
  \/ \E id \in MixAmbientIds : StopAmbient(id)
  \/ \E idx \in MixPresetIdxs, ok \in BOOLEAN : PlayPreset(idx, "a.mp3", ok)
  \/ \E idx \in MixPresetIdxs : PausePreset(idx)
  \/ \E idx \in MixPresetIdxs : StopPreset(idx)
  \/ \E audio \in SoundingPresets : PresetEnded(audio)
  \/ \E idx \in MixPresetIdxs : LoadedMetadata(idx)
  \/ \E idx \in MixPresetIdxs : Advance(idx)
  \/ \E ok \in BOOLEAN : PlayTTS("p1", ok)
  \/ \E audio \in SoundingSpeech : TtsEnded(audio)

SpecMix == Init /\ [][NextMix]_vars

\* the message display: commands and clicks enqueue at any moment, the
\* timers of the browser always fire
NextMessages ==
  \/ \E messageId \in MessageIds : SendPredefinedMessage(messageId)
  \/ \E content \in CustomContents : SendCustomMessage(content)
  \/ StartSequence
  \/ Timers

SpecMessages == Init /\ [][NextMessages]_vars /\ WF_vars(Timers)

\* two preset slots under the reporter timer
ProgressIdxs == {0, 1}

\* the progress reporter over two preset slots: the gate is unlocked through
\* the API, the slots are played, paused, stopped and run by the platform
NextProgress ==
  \/ UnlockAudio
  \/ Tick
  \/ \E idx \in ProgressIdxs, ok \in BOOLEAN : PlayPreset(idx, "a.mp3", ok)
  \/ \E idx \in ProgressIdxs : PausePreset(idx)
  \/ \E idx \in ProgressIdxs : StopPreset(idx)
  \/ \E audio \in SoundingPresets : PresetEnded(audio)
  \/ \E idx \in ProgressIdxs : LoadedMetadata(idx)
  \/ \E idx \in ProgressIdxs : Advance(idx)

SpecProgress == Init /\ [][NextProgress]_vars


\* ------------------------------------------------------------ properties

PlayOps == {"audio:play-ambient", "audio:play-preset", "audio:play-tts"}
UnlockOps == {"gesture", "unlockAudio"}
NoLiveInstance ==
  ambientAudios = <<>> /\ presetAudios = <<>> /\ ttsAudio = NoAudio

\* C1: while the gate is locked, play-ambient, play-preset and play-tts
\* create no instance in any live set and emit nothing; stop-ambient,
\* stop-preset, stop-all, volume-ia and master-volume are not gated: the
\* stored level is the commanded one and the targeted instance is gone,
\* whatever the gate (so also while locked).
C1_LockedPlayIsNoOp ==
  [][ /\ (~audioUnlocked /\ last'.op \in PlayOps) =>
            /\ UNCHANGED <<ambientAudios, presetAudios, ttsAudio>>
            /\ NoLiveInstance'
            /\ constructed' = 0
            /\ out' = <<>>
      /\ (last'.op = "audio:volume-ia") => iaVolume' = last'.volume
      /\ (last'.op = "audio:master-volume") => masterVolume' = last'.volume
      /\ (last'.op = "audio:stop-ambient") =>
            ~Has(ambientAudios', last'.soundId)
      /\ (last'.op = "audio:stop-preset") =>
            ~Has(presetAudios', last'.presetIdx)
      /\ (last'.op = "audio:stop-all") => NoLiveInstance'
    ]_vars

\* a play command was handled behind the locked gate, after volume commands
\* had been stored
C1_Witness ==
  /\ ~audioUnlocked
  /\ last.op = "audio:play-preset"
  /\ iaVolume = 80
  /\ masterVolume = 80

\* C2: once audioUnlocked is true it is true in every later state.
C2_UnlockMonotonic == [][audioUnlocked => audioUnlocked']_vars

\* audio was disabled after the unlock and the gate is still unlocked
C2_Witness ==
  /\ audioUnlocked
  /\ ~audioConfig.enabled
  /\ last.op = "disableAudio"

\* C3: on a slot that holds a live instance, pause-preset only pauses it,
\* seek-preset only moves its position to the given time, and play-preset
\* with any file resumes that same instance: no element is constructed, the
\* source is the one bound at creation, the position is the one held before
\* the call, and it plays when the platform accepts the request.
C3_ResumeKeepsInstance ==
  [][ LET idx == last'.presetIdx IN
      Has(presetAudios, idx) =>
        LET old == Get(presetAudios, idx) IN
        /\ (last'.op = "audio:pause-preset") =>
              /\ Has(presetAudios', idx)
              /\ Get(presetAudios', idx) = [old EXCEPT !.paused = TRUE]
        /\ (last'.op = "audio:seek-preset") =>
              /\ Has(presetAudios', idx)
              /\ Get(presetAudios', idx) = [old EXCEPT !.currentTime = last'.time]
        /\ (last'.op = "audio:play-preset" /\ PlayAllowed) =>
              /\ constructed' = 0
              /\ Len(presetAudios') = Len(presetAudios)
              /\ Has(presetAudios', idx)
              /\ Get(presetAudios', idx).src = old.src
              /\ Get(presetAudios', idx).currentTime = old.currentTime
              /\ Get(presetAudios', idx).duration = old.duration
              /\ (last'.ok => ~Get(presetAudios', idx).paused)
    ]_vars

\* play-preset(0, "b.mp3") was handled on the instance created from "a.mp3"
\* and moved to position 1 by a seek: it plays "a.mp3" from 1
C3_Witness ==
  /\ last.op = "audio:play-preset"
  /\ last.file = "b.mp3"
  /\ constructed = 0
  /\ Has(presetAudios, 0)
  /\ Get(presetAudios, 0).src = PresetUrl("a.mp3")
  /\ Get(presetAudios, 0).currentTime = 1
  /\ Get(presetAudios, 0).duration = 0
  /\ ~Get(presetAudios, 0).paused

\* C4: unlocked and enabled, play-preset(idx, file) on an absent slot
\* constructs a new element bound to file at position 0 and registers it;
\* stop-preset, the natural end and stop-all leave the slot absent, so a
\* play-preset after them never resumes the old instance.
C4_AbsentSlotCreates ==
  [][ LET idx == last'.presetIdx IN
      /\ (last'.op = "audio:play-preset" /\ PlayAllowed
             /\ ~Has(presetAudios, idx)) =>
            /\ constructed' = 1
            /\ Has(presetAudios', idx)
            /\ Get(presetAudios', idx).src = PresetUrl(last'.file)
            /\ Get(presetAudios', idx).currentTime = 0
            /\ Get(presetAudios', idx).paused = ~last'.ok
      /\ (last'.op \in {"audio:stop-preset", "ended"}) =>
            ~Has(presetAudios', idx)
      /\ (last'.op = "audio:stop-all") => presetAudios' = <<>>
    ]_vars

\* a new instance bound to "b.mp3" was created at position 0
C4_Witness ==
  /\ last.op = "audio:play-preset"
  /\ constructed = 1
  /\ Has(presetAudios, 0)
  /\ Get(presetAudios, 0).src = PresetUrl("b.mp3")
  /\ Get(presetAudios, 0).currentTime = 0
  /\ ~Get(presetAudios, 0).paused

\* C5: each ambient id has at most one instance that is not torn down:
\* play-ambient (unlocked and enabled) registers exactly one new looping
\* instance under the id, and an instance already registered under it is
\* torn down (paused, source released); no ambient element is ever left
\* alive outside the live set.
C5_OneAmbientPerId ==
  [][ /\ (last'.op = "audio:play-ambient" /\ PlayAllowed) =>
            /\ constructed' = 1
            /\ tornDown' = (IF Has(ambientAudios, last'.soundId) THEN 1 ELSE 0)
            /\ Has(ambientAudios', last'.soundId)
            /\ Get(ambientAudios', last'.soundId).loop
            /\ Get(ambientAudios', last'.soundId).src = AmbientUrl(last'.file)
      /\ Len(ambientAudios') = Cardinality(Keys(ambientAudios'))
      /\ {e \in orphans' : e.kind = "ambient"} = {}
    ]_vars

\* play-ambient replaced an instance: one torn down, one constructed, one live
C5_Witness ==
  /\ last.op = "audio:play-ambient"
  /\ tornDown = 1
  /\ constructed = 1
  /\ Len(ambientAudios) = 1
  /\ ~Get(ambientAudios, "rain").paused

\* C6: the natural end of a preset emits exactly one audio:preset-progress
\* event for its slot, with ended = true and currentTime = duration, and
\* leaves the slot absent; no other handler emits an ended event, and a
\* tick reports registered slots only.
C6_EndReportedOnce ==
  [][ /\ (last'.op = "ended") =>
            /\ out' = <<Ev("audio:preset-progress", last'.presetIdx,
                           Duration, Duration, TRUE)>>
            /\ ~Has(presetAudios', last'.presetIdx)
      /\ (last'.op # "ended") => \A i \in DOMAIN out' : ~out'[i].ended
      /\ (last'.op = "tick") =>
            \A i \in DOMAIN out' : Has(presetAudios', out'[i].presetIdx)
    ]_vars

\* a preset has just ended: one terminal report, slot absent
C6_Witness ==
  /\ last.op = "ended"
  /\ Len(out) = 1
  /\ out[1].ended
  /\ out[1].currentTime = out[1].duration
  /\ presetAudios = <<>>

\* C7: the volume of every live preset instance and of the live speech clip
\* equals the stored iaVolume.
C7_IaVolumeMirrored ==
  /\ \A e \in Values(presetAudios) : e.volume = iaVolume
  /\ (ttsAudio # NoAudio) => ttsAudio.volume = iaVolume

\* volume-ia was handled while a preset and a speech clip were live
C7_Witness ==
  /\ last.op = "audio:volume-ia"
  /\ iaVolume = 80
  /\ presetAudios # <<>>
  /\ ttsAudio # NoAudio

\* C8: volume-ia leaves every ambient instance, masterVolume and the shared
\* gain unchanged; master-volume leaves iaVolume and every ambient, preset
\* and speech element unchanged.
C8_VolumeFrames ==
  [][ /\ (last'.op = "audio:volume-ia") =>
            UNCHANGED <<ambientAudios, masterVolume, masterGain>>
      /\ (last'.op = "audio:master-volume") =>
            UNCHANGED <<iaVolume, ambientAudios, presetAudios, ttsAudio>>
    ]_vars

\* master-volume was handled with an ambient, a preset and a speech clip
\* live, and their own volumes still differ from the master level
C8_Witness ==
  /\ last.op = "audio:master-volume"
  /\ masterVolume = 80
  /\ masterGain = 80
  /\ Has(ambientAudios, "rain")
  /\ Get(ambientAudios, "rain").volume = 50
  /\ presetAudios # <<>>
  /\ ttsAudio # NoAudio
  /\ iaVolume = 100

\* C9: whenever the routing graph exists, the shared gain equals the stored
\* masterVolume; it does not exist before the first unlock.
C9_GainFollowsMaster ==
  /\ audioCtx => masterGain = masterVolume
  /\ ~audioCtx => masterGain = NoGain
  /\ audioUnlocked => audioCtx

\* the graph was just created by an unlock, with a master volume that had
\* been stored before it existed
C9_Witness ==
  /\ last.op \in UnlockOps
  /\ out = <<RegisterAudioPlayer>>
  /\ audioCtx
  /\ masterGain = 80

\* C10: the unlock sequence runs at most once; when it runs it creates the
\* graph, sets the flag, emits register-audio-player, starts the reporter
\* and detaches the gesture watch; an unlock attempt made while unlocked or
\* disabled emits nothing and changes nothing (of the gesture watch, only
\* the one-shot subscription that fired is gone).
C10_UnlockOnce ==
  [][ /\ unlockRuns' <= 1
      /\ (last'.op \in UnlockOps /\ ~(audioUnlocked \/ ~audioConfig.enabled)) =>
            /\ unlockRuns' = unlockRuns + 1
            /\ audioUnlocked' /\ audioCtx' /\ progressInterval'
            /\ intervals' = 1
            /\ out' = <<RegisterAudioPlayer>>
            /\ unlockListeners' = {}
      /\ (last'.op \in UnlockOps /\ (audioUnlocked \/ ~audioConfig.enabled)) =>
            /\ out' = <<>>
            /\ UNCHANGED <<audioConfig, audioUnlocked, audioCtx, masterGain,
                           masterVolume, iaVolume, ambientAudios, presetAudios,
                           ttsAudio, progressInterval, intervals, liveUrls,
                           orphans, unlockRuns>>
            /\ unlockListeners' =
                 (IF last'.op = "gesture"
                  THEN unlockListeners \ {last'.soundId} ELSE unlockListeners)
    ]_vars

\* a gesture fired on a re-attached watch while the gate was already
\* unlocked: nothing emitted, still one run
C10_Witness ==
  /\ last.op = "gesture"
  /\ audioUnlocked
  /\ audioConfig.enabled
  /\ out = <<>>
  /\ unlockRuns = 1


\* C11: at most one speech clip is in flight: play-tts (unlocked and
\* enabled) tears down the clip in flight (paused, source released) and the
\* clip of this command becomes the singleton at once; nothing is queued,
\* and no speech element stays alive outside the singleton.
C11_OneSpeechClip ==
  [][ /\ (last'.op = "audio:play-tts" /\ PlayAllowed) =>
            /\ constructed' = 1
            /\ tornDown' = (IF ttsAudio # NoAudio THEN 1 ELSE 0)
            /\ ttsAudio' # NoAudio
            /\ ttsAudio'.src = BlobUrl(last'.file)
            /\ ttsAudio'.paused = ~last'.ok
            /\ ttsAudio'.currentTime = 0
      /\ {e \in orphans' : e.kind = "tts"} = {}
    ]_vars

\* play-tts("p2") preempted a clip in flight: one torn down, "p2" playing
C11_Witness ==
  /\ last.op = "audio:play-tts"
  /\ last.file = "p2"
  /\ tornDown = 1
  /\ constructed = 1
  /\ ttsAudio.src = BlobUrl("p2")
  /\ ~ttsAudio.paused


\* C12: on every transport connect or reconnect, register-audio-player is
\* emitted if and only if at that moment the gate is unlocked and audio is
\* enabled; a reconnect while locked or disabled emits nothing.
C12_ConnectAnnounces ==
  [][ last'.op = "connect" =>
        /\ (audioUnlocked /\ audioConfig.enabled) =>
              out' = <<RegisterAudioPlayer>>
        /\ ~(audioUnlocked /\ audioConfig.enabled) => out' = <<>>
    ]_vars

\* a reconnect while unlocked but disabled: nothing announced
C12_Witness ==
  /\ last.op = "connect"
  /\ audioUnlocked
  /\ ~audioConfig.enabled
  /\ out = <<>>


\* C13 (as stated): whenever the gesture watch is attached, the firing of
\* any one of the three watched events leaves the gate unlocked and none of
\* the three subscriptions attached.
C13_Original ==
  [][ last'.op = "gesture" => (audioUnlocked' /\ unlockListeners' = {}) ]_vars

\* C13 (amended): a watched event that fires while the gate is locked and
\* audio is enabled unlocks the gate and leaves none of the three
\* subscriptions attached; fired while audio is disabled or the gate is
\* already unlocked, it leaves the gate as it was and detaches only the
\* one-shot subscription that fired.
C13_GestureUnlocks ==
  [][ last'.op = "gesture" =>
        IF ~audioUnlocked /\ audioConfig.enabled
        THEN /\ audioUnlocked'
             /\ unlockListeners' = {}
        ELSE /\ audioUnlocked' = audioUnlocked
             /\ unlockListeners' = unlockListeners \ {last'.soundId}
    ]_vars

\* a gesture has just unlocked the gate and detached the whole watch
C13_Witness ==
  /\ last.op = "gesture"
  /\ audioUnlocked
  /\ audioConfig.enabled
  /\ unlockRuns = 1
  /\ out = <<RegisterAudioPlayer>>
  /\ unlockListeners = {}


\* C14: in every reachable state at most one progress-reporter timer is
\* active, the handle is set exactly when a timer is active, and no timer is
\* active while audio is disabled (every disabling path stops the timer and
\* clears the handle; a start while running creates no second timer).
C14_OneTimer ==
  /\ intervals <= 1
  /\ progressInterval <=> (intervals = 1)
  /\ ~audioConfig.enabled => (intervals = 0 /\ ~progressInterval)

\* audio disabled after an unlock: the timer started at unlock is stopped
C14_Witness ==
  /\ last.op = "disableAudio"
  /\ audioUnlocked
  /\ unlockRuns = 1
  /\ ~audioConfig.enabled
  /\ intervals = 0
  /\ ~progressInterval


\* the events of `evs' that carry preset slot idx
EventsOf(evs, idx) == {j \in DOMAIN evs : evs[j].presetIdx = idx}

\* C15: each tick of the progress reporter emits exactly one
\* audio:preset-progress event {presetIdx, currentTime, duration} for every
\* preset slot that is live, not paused and of known duration, no event for
\* a slot that is paused, absent or of unknown duration, and changes no live
\* set, position or volume.
C15_TickReports ==
  [][ last'.op = "tick" =>
        /\ \A i \in DOMAIN presetAudios :
              LET idx == presetAudios[i].k
                  audio == presetAudios[i].v
              IN IF ~audio.paused /\ audio.duration # 0
                 THEN /\ Cardinality(EventsOf(out', idx)) = 1
                      /\ \E j \in DOMAIN out' :
                            out'[j] = Ev("audio:preset-progress", idx,
                                         audio.currentTime, audio.duration,
                                         FALSE)
                 ELSE EventsOf(out', idx) = {}
        /\ \A j \in DOMAIN out' : Has(presetAudios, out'[j].presetIdx)
        /\ UNCHANGED <<ambientAudios, presetAudios, ttsAudio, masterVolume,
                       iaVolume, masterGain, orphans>>
    ]_vars

\* a tick over two live slots, one playing with known duration and one
\* paused: one event, for the playing slot
C15_Witness ==
  /\ last.op = "tick"
  /\ Len(presetAudios) = 2
  /\ Len(out) = 1
  /\ \E i \in DOMAIN presetAudios :
        /\ presetAudios[i].v.paused
        /\ presetAudios[i].v.duration # 0
        /\ EventsOf(out, presetAudios[i].k) = {}
  /\ \E i \in DOMAIN presetAudios :
        /\ ~presetAudios[i].v.paused
        /\ presetAudios[i].v.currentTime > 0
        /\ out[1].presetIdx = presetAudios[i].k
        /\ out[1].currentTime = presetAudios[i].v.currentTime


\* C16: re-registering a caller subscription for the same event name
\* (onCommand, onMessage, onConnect, onDisconnect), also with a new callback
\* function, replaces the previous one: an inbound event of a name that has
\* been registered invokes exactly one caller callback, the one of the most
\* recent registration.
C16_ReRegistrationReplaces ==
  [][ (last'.op \in CallerEvents /\ latestCallback[last'.op] # NoCallback) =>
        invoked' = <<latestCallback[last'.op]>>
    ]_vars


\* the play request of the step is rejected by the platform: the handler is
\* past its gate, the answer is a rejection and the element it plays is not
\* already sounding
PlayRejected ==
  /\ last'.op \in PlayOps
  /\ PlayAllowed
  /\ ~last'.ok
  /\ ~(/\ last'.op = "audio:play-preset"
       /\ Has(presetAudios, last'.presetIdx)
       /\ ~Get(presetAudios, last'.presetIdx).paused)

\* the entries of Map m other than key k are the same in m2
OthersUnchanged(m, m2, k) ==
  /\ Keys(m2) = Keys(m) \cup {k}
  /\ \A j \in Keys(m) \ {k} : Get(m2, j) = Get(m, j)

\* C17: when the platform rejects the play request of play-ambient,
\* play-preset or play-tts, the handler completes, the targeted instance is
\* registered in its live set in a non-playing state, and every other live
\* ambient, preset and speech instance (play state, position, volume) and
\* the rest of the engine state are unchanged.
C17_RejectedPlay ==
  [][ PlayRejected =>
        /\ last'.op = "audio:play-ambient" =>
              /\ Has(ambientAudios', last'.soundId)
              /\ Get(ambientAudios', last'.soundId).paused
              /\ OthersUnchanged(ambientAudios, ambientAudios', last'.soundId)
              /\ UNCHANGED <<presetAudios, ttsAudio>>
        /\ last'.op = "audio:play-preset" =>
              /\ Has(presetAudios', last'.presetIdx)
              /\ Get(presetAudios', last'.presetIdx).paused
              /\ OthersUnchanged(presetAudios, presetAudios', last'.presetIdx)
              /\ UNCHANGED <<ambientAudios, ttsAudio>>
        /\ last'.op = "audio:play-tts" =>
              /\ ttsAudio' # NoAudio
              /\ ttsAudio'.paused
              /\ UNCHANGED <<ambientAudios, presetAudios>>
        /\ out' = <<>>
        /\ UNCHANGED <<audioConfig, audioUnlocked, audioCtx, masterGain,
                       masterVolume, iaVolume, progressInterval, intervals,
                       unlockListeners, unlockRuns>>
    ]_vars

\* a rejected play-ambient("wind") beside a sounding ambient, a sounding
\* preset in mid-clip and a sounding speech clip
C17_Witness ==
  /\ last.op = "audio:play-ambient"
  /\ last.soundId = "wind"
  /\ ~last.ok
  /\ Has(ambientAudios, "wind")
  /\ Get(ambientAudios, "wind").paused
  /\ Has(ambientAudios, "rain")
  /\ ~Get(ambientAudios, "rain").paused
  /\ \E idx \in Keys(presetAudios) :
        /\ ~Get(presetAudios, idx).paused
        /\ Get(presetAudios, idx).currentTime > 0
  /\ ttsAudio # NoAudio
  /\ ~ttsAudio.paused


\* C18: an end-of-clip notification of an instance that was stopped or
\* superseded never affects its successor: every end handler that runs
\* belongs to the instance registered in its slot (resp. to the speech
\* singleton), which was sounding (for a preset: at the end of its clip), the
\* ended:true event is emitted on behalf of that instance, and no sounding
\* element is ever outside the live sets, out of reach of the stop, volume
\* and progress operations.
C18_NoStaleEnd ==
  [][ /\ last'.op = "ended" =>
            /\ Has(presetAudios, last'.presetIdx)
            /\ LET audio == Get(presetAudios, last'.presetIdx)
               IN /\ ~audio.paused
                  /\ audio.src # NoSrc
                  /\ audio.currentTime = audio.duration
                  /\ out' = <<Ev("audio:preset-progress", last'.presetIdx,
                                 audio.duration, audio.duration, TRUE)>>
            /\ OthersUnchanged(presetAudios', presetAudios, last'.presetIdx)
      /\ last'.op = "tts-ended" =>
            /\ ttsAudio # NoAudio
            /\ ~ttsAudio.paused
            /\ ttsAudio.src # NoSrc
      /\ orphans' = {}
    ]_vars

\* a second play-tts has superseded a clip while a preset sounds at the end
\* of its clip: the successor is the singleton and sounds
C18_Witness ==
  /\ last.op = "audio:play-tts"
  /\ last.ok
  /\ tornDown = 1
  /\ constructed = 1
  /\ ~ttsAudio.paused
  /\ \E idx \in Keys(presetAudios) :
        /\ ~Get(presetAudios, idx).paused
        /\ Get(presetAudios, idx).duration # 0
        /\ Get(presetAudios, idx).currentTime = Get(presetAudios, idx).duration


\* C19: every object URL created by play-tts is released once its clip stops
\* being the live speech clip (natural completion, preemption by a later
\* play-tts, stop-all, disabling audio): in every reachable state the number
\* of created and unreleased speech URLs is at most the number of live speech
\* clips (0 or 1).
C19_HandlesReleased ==
  liveUrls <= (IF ttsAudio # NoAudio THEN 1 ELSE 0)

\* C20: whenever the gate is unlocked and audio is enabled the
\* progress-reporter timer is running, after any sequence of disable and
\* re-enable operations, through enableAudio() or through
\* configureAudio({enabled: true}).
C20_TimerRunsWhenAllowed ==
  (audioUnlocked /\ audioConfig.enabled) =>
      (progressInterval /\ intervals = 1)


\* C21: in every reachable state in which audio is disabled or the gate is
\* locked, the live ambient set and the live preset set are empty and there
\* is no live speech clip (disabling tears down every instance, and no
\* command creates one until audio is enabled and unlocked); no element
\* sounds outside the live sets either.
C21_NothingLiveWhenBlocked ==
  (~audioConfig.enabled \/ ~audioUnlocked) =>
      (NoLiveInstance /\ orphans = {})

\* configureAudio({enabled: false}) has just torn down an ambient, a preset
\* and the speech clip on an unlocked gate
C21_Witness ==
  /\ last.op = "configureAudio"
  /\ last.soundId = "false"
  /\ audioUnlocked
  /\ ~audioConfig.enabled
  /\ tornDown = 3
  /\ NoLiveInstance


\* the messages of the showMessage promises pending, in order
Showing == [i \in DOMAIN shows |-> shows[i].message]

\* C22: messages passed to addMessageToQueue are displayed one at a time in
\* enqueue order, whatever the interleaving of enqueues with a display in
\* progress: at most one showMessage is in progress, the messages started
\* are the enqueued ones in order, each started only once the promise of the
\* previous one has resolved, none waits while no display is in progress, and
\* every enqueued message is eventually displayed (exactly once, by the
\* order).
C22_OneAtATimeFifo ==
  /\ [](/\ Len(shows) <= 1
        /\ started \o messageQueue = enqueued
        /\ resolved \o Showing = started
        /\ (shows # <<>>) <=> isProcessing
        /\ (messageQueue # <<>>) => (shows # <<>>))
  /\ \A n \in 1 .. MaxEnqueued :
        (Len(enqueued) >= n) ~> (Len(resolved) >= n)

\* a message was enqueued during a display: one message displayed, the
\* second being typed, a third waiting in the queue
C22_Witness ==
  /\ Len(resolved) = 1
  /\ Len(shows) = 1
  /\ shows[1].phase = "typing"
  /\ shows[1].charIndex > 0
  /\ currentMessage = Slice(shows[1].message.content, shows[1].charIndex)
  /\ isVisible
  /\ Len(messageQueue) = 1
  /\ enqueued = resolved \o Showing \o messageQueue

====
